---- MODULE Spec2Model ----
(***************************************************************************)
(* cita-tool JSON-RPC client (cita-tool/src/client.rs).                    *)
(*                                                                         *)
(* struct Client { id: u64, url: Vec<String>, core: Core,                  *)
(*                 chain_id: Option<u32> }                                 *)
(*                                                                         *)
(* The model follows one thread of control that drives one or more Client  *)
(* values.  A call of send_request blocks in Core::run; the steps of the   *)
(* event loop (an endpoint answers, an endpoint fails) are the actions     *)
(* taken while pc = "run".  A panic (an unwrap() on Err or None, an        *)
(* arithmetic overflow in a checked build) ends the thread.                *)
(*                                                                         *)
(* u64 and u32 values are little-endian sequences of 16-bit limbs, so that *)
(* the full width of the Rust integers is kept.                            *)
(***************************************************************************)
EXTENDS Integers, Sequences, FiniteSets, TLC

VARIABLES
    id,          \* id[c]: Client.id of client c, a u64
    url,         \* url[c]: Client.url of client c, the endpoints in order
    chain_id,    \* chain_id[c]: Client.chain_id of client c, an Option<u32>
    pc,          \* "idle": no call in progress; "run": a call waits in
                 \* Core::run; "panicked": the thread has panicked
    cur,         \* the public call in progress, or the last one
    elems,       \* the elements of the JoinAll that Core::run drives
    issued,      \* issued[i]: requests sent to endpoint i by the current call
    arrived,     \* what the endpoints did in the current call, in order of
                 \* arrival: an answer with its body, or a failure
    last_params, \* last_params[c]: the request body send_request built last
    ret          \* what the last call returned

vars == <<id, url, chain_id, pc, cur, elems, issued, arrived, last_params, ret>>

\* ------------------------------------------------------------------ bounds
\* Largest number of endpoints registered on one client.
MaxUrls == 2
\* send_request is called only while the id is one of the MaxSends ids from
\* u64::MAX - 1 on (u64::MAX - 1, u64::MAX, 0, ...).
MaxSends == 3

\* ------------------------------------------------------- fixed-width integers
\* One limb holds 16 bits.
Base == 2^16

RECURSIVE AddLimbs(_, _, _)
\* Limb-wise a + b + carry, truncated to the width of a.
AddLimbs(a, b, carry) ==
    IF a = <<>> THEN <<>>
    ELSE LET s == Head(a) + Head(b) + carry
         IN  <<s % Base>> \o AddLimbs(Tail(a), Tail(b), s \div Base)

RECURSIVE CarryOut(_, _, _)
\* The carry out of the top limb of a + b + carry.
CarryOut(a, b, carry) ==
    IF a = <<>> THEN carry
    ELSE CarryOut(Tail(a), Tail(b), (Head(a) + Head(b) + carry) \div Base)

\* A number below 2^31 as a u64.
U64(n) == <<n % Base, (n \div Base) % Base, 0, 0>>
\* A number below 2^31 as a u32.
U32(n) == <<n % Base, (n \div Base) % Base>>

Zero64 == <<0, 0, 0, 0>>
\* u64::MAX
Max64 == <<Base - 1, Base - 1, Base - 1, Base - 1>>

\* u64::overflowing_add: the wrapped sum and whether it wrapped.
overflowing_add(a, b) ==
    [val |-> AddLimbs(a, b, 0), overflow |-> CarryOut(a, b, 0) = 1]

\* `x as u32` of a u64: the low 32 bits.
as_u32(x) == SubSeq(x, 1, 2)

\* ------------------------------------------------------------ Option, Result
None == [some |-> FALSE]
Some(x) == [some |-> TRUE, v |-> x]
Err == [ok |-> FALSE]
Ok(x) == [ok |-> TRUE, v |-> x]

\* ------------------------------------------------------------- ParamsValue
ParamsValue_Int(n) == [t |-> "Int", int |-> n]
ParamsValue_String(s) == [t |-> "String", str |-> s]
ParamsValue_List(l) == [t |-> "List", list |-> l]

\* JsonRpcParams::insert: sets the key, replacing a value already there.
insert(params, key, value) ==
    [k \in (DOMAIN params) \cup {key} |-> IF k = key THEN value ELSE params[k]]

\* JsonRpcParams::new
NewParams == [k \in {} |-> None]

\* ---------------------------------------------------- responses of a node
\* ResponseValue
ResponseValue_Singleton(x) == [t |-> "Singleton", single |-> x]
ResponseValue_Map(m) == [t |-> "Map", map |-> m]

\* A JsonRpcResponse: a success carries a result, an error response none.
SuccessResponse(rv) == [result |-> Some(rv)]
ErrorResponse == [result |-> None]

\* JsonRpcResponse::result
result(response) == response.result

\* The bytes of a response body: JSON text of a JsonRpcResponse, or bytes
\* that are no such text.
JsonBody(response) == [json |-> TRUE, text |-> response]
Garbage == [json |-> FALSE]

\* serde_json::from_slice::<JsonRpcResponse>
from_slice(body) == IF body.json THEN Ok(body.text) ELSE Err

\* A result map holding only the key chainId.
ChainIdMap(x) == [k \in {"chainId"} |-> x]
\* A result map without the key chainId.
EmptyMap == [k \in {} |-> ParamsValue_String("")]

\* 2^32 + 1 as a u64
Big64 == <<1, 0, 1, 0>>

\* The chainId values a node reports.
ReportedChainIds == {U64(2), Big64}

\* The response bodies an endpoint may answer with.
Bodies ==
    {Garbage,
     JsonBody(ErrorResponse),
     JsonBody(SuccessResponse(ResponseValue_Singleton(ParamsValue_String("0x10")))),
     JsonBody(SuccessResponse(ResponseValue_Map(EmptyMap))),
     JsonBody(SuccessResponse(ResponseValue_Map(ChainIdMap(ParamsValue_String("1")))))}
    \cup {JsonBody(SuccessResponse(ResponseValue_Map(ChainIdMap(ParamsValue_Int(x))))) :
             x \in ReportedChainIds}

\* ------------------------------------------------------------- endpoints
\* The addresses given to add_url: the address of a node, and the empty
\* string, which is no URI.  The same address may be registered twice; an
\* endpoint is known by its place in url.
Addrs == {"http://127.0.0.1:1337", ""}

\* hyper's Uri::from_str
Uri_from_str(s) == IF s = "" THEN Err ELSE Ok(s)

\* ---------------------------------------------------------------- methods
CITA_BLOCK_BUMBER == "cita_blockNumber"
CITA_GET_META_DATA == "cita_getMetaData"

\* The method names given to send_request.
Methods == {CITA_BLOCK_BUMBER, CITA_GET_META_DATA, "cita_sendTransaction"}

\* ------------------------------------------------------- hex::decode
HexDigits == <<"0", "1", "2", "3", "4", "5", "6", "7",
               "8", "9", "a", "b", "c", "d", "e", "f">>

IsHexDigit(ch) == \E i \in DOMAIN HexDigits : HexDigits[i] = ch
HexValue(ch) == (CHOOSE i \in DOMAIN HexDigits : HexDigits[i] = ch) - 1

\* (mutant of decode) every string decodes, to no bytes
decode_any(code) == Ok(<<>>)

\* hex::decode of a string given as its characters: an odd length or a
\* character that is no hex digit is an error, else two digits make a byte.
decode(code) ==
    IF Len(code) % 2 # 0 \/ \E i \in DOMAIN code : ~IsHexDigit(code[i])
    THEN Err
    ELSE Ok([i \in 1..(Len(code) \div 2) |->
                16 * HexValue(code[2 * i - 1]) + HexValue(code[2 * i])])

\* ------------------------------------------------- the client's functions
\* The allow-list of send_request's match.
IsAllowedMethod(method) ==
    method = CITA_BLOCK_BUMBER \/ method = CITA_GET_META_DATA

\* (mutant of NextId) the id stops at u64::MAX
NextIdSaturating(cid) == IF cid = Max64 THEN Max64 ELSE AddLimbs(cid, U64(1), 0)

\* The request id of the next call: self.id.overflowing_add(1).0
NextId(cid) == overflowing_add(cid, U64(1)).val

\* (mutant of make_requests_with_all_url) only the first request carries
\* the params, the others an empty body
make_requests_first_body(urls, params) ==
    IF \E i \in DOMAIN urls : ~Uri_from_str(urls[i]).ok
    THEN Err
    ELSE Ok([i \in DOMAIN urls |->
                [uri |-> Uri_from_str(urls[i]).v,
                 body |-> IF i = 1 THEN params ELSE NewParams]])

\* make_requests_with_all_url: one POST request per url, all with the same
\* body; Uri::from_str(url).unwrap() panics (Err) on a url that is no URI.
make_requests_with_all_url(urls, params) ==
    IF \E i \in DOMAIN urls : ~Uri_from_str(urls[i]).ok
    THEN Err
    ELSE Ok([i \in DOMAIN urls |->
                [uri |-> Uri_from_str(urls[i]).v, body |-> params]])

\* The states of one element of a JoinAll: the future of a request, pending
\* or done with the body of the response.
Pending(req) == [req |-> req, done |-> FALSE]
Done(req, body) == [req |-> req, done |-> TRUE, body |-> body]

\* (mutant of join_all) only the first request is driven
join_all_first(reqs) == [i \in DOMAIN reqs \cap {1} |-> Pending(reqs[i])]

\* futures::future::join_all(reqs): one element per request, in the order
\* of the requests, each pending.
join_all(reqs) == [i \in DOMAIN reqs |-> Pending(reqs[i])]

\* The first poll of the JoinAll, in Core::run, polls every element, which
\* starts its request: the requests sent to each of n endpoints.
Started(es, n) == [i \in 1..n |-> IF i \in DOMAIN es THEN 1 ELSE 0]

\* (mutant of JoinAllReady) never ready
JoinAllReadyNever(es) == FALSE

\* JoinAll is ready when every element is done; its item lists the
\* elements' values in the order of the elements.
JoinAllReady(es) == \A i \in DOMAIN es : es[i].done
\* (mutant of JoinAllItem) the values in the reverse order of the elements
JoinAllItemReversed(es) == [i \in DOMAIN es |-> es[Len(es) + 1 - i].body]
JoinAllItem(es) == [i \in DOMAIN es |-> es[i].body]

\* (mutant of JoinAll_poll) ready as soon as one element is done, with the
\* values of the elements that are done
JoinAll_poll_first_done(es) ==
    IF \E i \in DOMAIN es : es[i].done
    THEN LET IsDone(e) == e.done
             done == SelectSeq(es, IsDone)
         IN  [ready |-> TRUE, item |-> [i \in DOMAIN done |-> done[i].body]]
    ELSE [ready |-> FALSE]

\* JoinAll::poll: not ready while an element is pending, else ready with
\* the item.
JoinAll_poll(es) ==
    IF JoinAllReady(es) THEN [ready |-> TRUE, item |-> JoinAllItem(es)]
    ELSE [ready |-> FALSE]

\* (mutant of run) bodies that are no JsonRpcResponse are left out
run_skipping(joined) ==
    IF ~joined.ok THEN Err
    ELSE LET Parses(b) == from_slice(b).ok
             good == SelectSeq(joined.v, Parses)
         IN  Ok([i \in DOMAIN good |-> from_slice(good[i]).v])

\* Client::run on the outcome of core.run(reqs): unwrap() panics (Err) when
\* a request failed, and again when a body is not a JsonRpcResponse.
run(joined) ==
    IF ~joined.ok THEN Err
    ELSE IF \E i \in DOMAIN joined.v : ~from_slice(joined.v[i]).ok THEN Err
    ELSE Ok([i \in DOMAIN joined.v |-> from_slice(joined.v[i]).v])

\* (mutant of pop) the first element is taken
pop_front(vec) == IF vec = <<>> THEN None ELSE Some(vec[1])

\* Vec::pop: the last element, if any.
pop(vec) == IF vec = <<>> THEN None ELSE Some(vec[Len(vec)])

\* HashMap::remove
remove(map, key) == IF key \in DOMAIN map THEN Some(map[key]) ELSE None

\* (mutant of IsCached) the cached chain id is never used
IsCachedNever(cache) == FALSE

\* self.chain_id.is_some()
IsCached(cache) == cache.some

\* (mutant of get_chain_id_result) the 0 returned for an unexpected shape
\* is cached like a chain id
get_chain_id_result_caching_zero(sent) ==
    LET Panic == [panic |-> TRUE, set |-> None, value |-> U32(0)]
        Zero == [panic |-> FALSE, set |-> Some(U32(0)), value |-> U32(0)]
    IN  IF ~sent.ok THEN Panic
        ELSE LET last == pop(sent.v)
             IN  IF ~last.some THEN Panic
                 ELSE LET res == result(last.v)
                      IN  IF res.some /\ res.v.t = "Map"
                          THEN LET chainId == remove(res.v.map, "chainId")
                               IN  IF ~chainId.some THEN Panic
                                   ELSE IF chainId.v.t = "Int"
                                   THEN [panic |-> FALSE,
                                         set |-> Some(as_u32(chainId.v.int)),
                                         value |-> as_u32(chainId.v.int)]
                                   ELSE Zero
                          ELSE Zero

\* (mutant of get_chain_id_result) with no response at all, 0 is returned
get_chain_id_result_zero_if_none(sent) ==
    LET Panic == [panic |-> TRUE, set |-> None, value |-> U32(0)]
        Zero == [panic |-> FALSE, set |-> None, value |-> U32(0)]
    IN  IF ~sent.ok THEN Panic
        ELSE LET last == pop(sent.v)
             IN  IF ~last.some THEN Zero
                 ELSE LET res == result(last.v)
                      IN  IF res.some /\ res.v.t = "Map"
                          THEN LET chainId == remove(res.v.map, "chainId")
                               IN  IF ~chainId.some THEN Panic
                                   ELSE IF chainId.v.t = "Int"
                                   THEN [panic |-> FALSE,
                                         set |-> Some(as_u32(chainId.v.int)),
                                         value |-> as_u32(chainId.v.int)]
                                   ELSE Zero
                          ELSE Zero

\* get_chain_id after send_request has returned `sent` (lines 142-158).
\* panic: an unwrap() failed; set: the value stored in self.chain_id, if
\* any; value: the u32 returned.
get_chain_id_result(sent) ==
    LET Panic == [panic |-> TRUE, set |-> None, value |-> U32(0)]
        Zero == [panic |-> FALSE, set |-> None, value |-> U32(0)]
    IN  IF ~sent.ok THEN Panic
        ELSE LET last == pop(sent.v)
             IN  IF ~last.some THEN Panic
                 ELSE LET res == result(last.v)
                      IN  IF res.some /\ res.v.t = "Map"
                          THEN LET chainId == remove(res.v.map, "chainId")
                               IN  IF ~chainId.some THEN Panic
                                   ELSE IF chainId.v.t = "Int"
                                   THEN [panic |-> FALSE,
                                         set |-> Some(as_u32(chainId.v.int)),
                                         value |-> as_u32(chainId.v.int)]
                                   ELSE Zero
                          ELSE Zero

\* Option::unwrap_or
unwrap_or(opt, default) == IF opt.some THEN opt.v ELSE default

\* The fixed quota of a transaction.
Quota == 1000000
\* The number of blocks a transaction stays valid.
ValidBlocks == 88

\* (mutant of add_valid_blocks) one block short
add_valid_blocks_short(current_height) ==
    overflowing_add(current_height, U64(ValidBlocks - 1))

\* current_height + 88 as the u64 addition computes it, and whether it
\* overflows.
add_valid_blocks(current_height) ==
    overflowing_add(current_height, U64(ValidBlocks))

\* The transaction generate_transaction assembles before it sets the chain
\* id (lines 113-119).
new_transaction(data, address, nonce, valid_until_block) ==
    [data |-> data, to |-> address, nonce |-> nonce,
     valid_until_block |-> valid_until_block, quota |-> Quota]

\* tx.set_chain_id
set_chain_id(tx, cid) ==
    [k \in (DOMAIN tx) \cup {"chain_id"} |-> IF k = "chain_id" THEN cid ELSE tx[k]]

\* tx.sign(pv) and the encoding of the signed transaction.
sign(tx, pv) == [transaction |-> tx, signer |-> pv]

\* u64 wrapping_sub, limb by limb with a borrow.
RECURSIVE SubLimbs(_, _, _)
SubLimbs(a, b, borrow) ==
    IF a = <<>> THEN <<>>
    ELSE LET d == Head(a) - Head(b) - borrow
         IN  <<d % Base>> \o SubLimbs(Tail(a), Tail(b), IF d < 0 THEN 1 ELSE 0)

wrapping_sub(a, b) == SubLimbs(a, b, 0)

\* ------------------------------------------------------------ the inputs
Clients == {"c1", "c2"}
\* The clients the thread of Spec calls.
Callers == {"c1"}

\* u64::MAX - 1
Max64Less1 == <<Base - 2, Base - 1, Base - 1, Base - 1>>
\* The id of a client when the model starts to watch it: a new client, and
\* one that has made 2^64 - 2 calls.
StartIds == {Zero64, Max64Less1}

\* The id is fewer than MaxSends calls after u64::MAX - 1.
CanSend(cid) ==
    LET d == wrapping_sub(cid, Max64Less1)
    IN  d[1] < MaxSends /\ d[2] = 0 /\ d[3] = 0 /\ d[4] = 0

\* The params a caller passes to send_request, without and with an id.
CallerParams(method) ==
    LET base == insert(insert(NewParams, "params", ParamsValue_List(<<>>)),
                       "method", ParamsValue_String(method))
    IN  {base, insert(base, "id", ParamsValue_Int(U64(7)))}

\* The params get_chain_id passes to send_request (lines 133-141).
MetaDataParams ==
    insert(insert(NewParams, "params",
                  ParamsValue_List(<<ParamsValue_String("latest")>>)),
           "method", ParamsValue_String(CITA_GET_META_DATA))

\* The hex strings given to generate_transaction, as their characters.
Codes == {<<"6", "0", "6", "0">>, <<"z", "z">>}
PrivKeys == {"pv"}
Nonces == {"nonce"}
\* u64::MAX - 50
NearMax64 == <<Base - 51, Base - 1, Base - 1, Base - 1>>
Heights == {U64(100), NearMax64}
Overrides == {None, Some(U32(1))}

\* -------------------------------------------------------------- the state
NoCall == [op |-> "none"]
NoReturn == [kind |-> "none"]
Panicked == [kind |-> "panic"]
Zeros(n) == [i \in 1..n |-> 0]

Init ==
    /\ \E s \in StartIds : id = [c \in Clients |-> s]
    /\ url = [c \in Clients |-> <<>>]
    /\ chain_id = [c \in Clients |-> None]
    /\ pc = "idle"
    /\ cur = NoCall
    /\ elems = <<>>
    /\ issued = <<>>
    /\ arrived = <<>>
    /\ last_params = [c \in Clients |-> None]
    /\ ret = NoReturn

\* ------------------------------------------------------------ the actions
\* The outcome of Client::run, for the caller of send_request: a panic, or
\* the Ok(..) that send_request returns.
run_outcome(joined) ==
    LET r == run(joined)
    IN  IF r.ok THEN [panic |-> FALSE, res |-> Ok(r.v)] ELSE [panic |-> TRUE]

\* What get_chain_id and generate_transaction make of the outcome g of
\* get_chain_id's body: the call's return value and the chain id to cache.
after_chain_id(k, g) ==
    IF g.panic THEN [panic |-> TRUE, ret |-> Panicked, set |-> None]
    ELSE IF k.op = "get_chain_id"
    THEN [panic |-> FALSE, ret |-> [kind |-> "u32", value |-> g.value], set |-> g.set]
    ELSE [panic |-> FALSE,
          ret |-> [kind |-> "String",
                   signed |-> sign(set_chain_id(k.tx, unwrap_or(k.chain_id, g.value)),
                                   k.pv)],
          set |-> g.set]

\* What the call k makes of the outcome of its send_request.
after_send(k, out) ==
    IF out.panic THEN [panic |-> TRUE, ret |-> Panicked, set |-> None]
    ELSE IF k.op = "send_request"
    THEN [panic |-> FALSE, ret |-> [kind |-> "Result", res |-> out.res], set |-> None]
    ELSE after_chain_id(k, get_chain_id_result(out.res))

\* (mutant of Return) the chain id is cached for every client
ReturnShared(c, a) ==
    /\ pc' = IF a.panic THEN "panicked" ELSE "idle"
    /\ ret' = a.ret
    /\ chain_id' = IF a.set.some THEN [x \in Clients |-> a.set] ELSE chain_id

\* The call on client c ends as a says.
Return(c, a) ==
    /\ pc' = IF a.panic THEN "panicked" ELSE "idle"
    /\ ret' = a.ret
    /\ chain_id' = IF a.set.some THEN [chain_id EXCEPT ![c] = a.set] ELSE chain_id

\* The body of send_request (lines 48-57), run for the call k.  The requests
\* are built before the method is matched; Core::run polls the JoinAll, which
\* polls every request once, and that sends it.  The call then waits in
\* Core::run (pc = "run").
send_request_from(c, k, method, params) ==
    LET nid == NextId(id[c])
        body == insert(params, "id", ParamsValue_Int(nid))
        reqs == make_requests_with_all_url(url[c], body)
        n == Len(url[c])
    IN  /\ CanSend(id[c])
        /\ id' = [id EXCEPT ![c] = nid]
        /\ last_params' = [last_params EXCEPT ![c] = Some(body)]
        /\ cur' = k
        /\ arrived' = <<>>
        /\ UNCHANGED url
        /\ IF ~reqs.ok
           THEN /\ elems' = <<>>
                /\ issued' = Zeros(n)
                /\ Return(c, after_send(k, [panic |-> TRUE]))
           ELSE IF ~IsAllowedMethod(method)
           THEN /\ elems' = <<>>
                /\ issued' = Zeros(n)
                /\ Return(c, after_send(k, [panic |-> FALSE, res |-> Err]))
           ELSE /\ elems' = join_all(reqs.v)
                /\ issued' = Started(join_all(reqs.v), n)
                /\ pc' = "run"
                /\ ret' = NoReturn
                /\ UNCHANGED chain_id

\* A call panics before it reaches send_request.
PanicNow(c, k) ==
    /\ cur' = k
    /\ pc' = "panicked"
    /\ ret' = Panicked
    /\ elems' = <<>>
    /\ issued' = Zeros(Len(url[c]))
    /\ arrived' = <<>>
    /\ UNCHANGED <<id, url, chain_id, last_params>>

\* (mutant of add_url) the address is put in front
add_url_front(c, u) ==
    /\ pc = "idle"
    /\ Len(url[c]) < MaxUrls
    /\ url' = [url EXCEPT ![c] = <<u>> \o @]
    /\ cur' = [op |-> "add_url", c |-> c]
    /\ ret' = [kind |-> "Self"]
    /\ elems' = <<>>
    /\ issued' = Zeros(Len(url[c]) + 1)
    /\ arrived' = <<>>
    /\ UNCHANGED <<id, chain_id, pc, last_params>>

\* Client::add_url
add_url(c, u) ==
    /\ pc = "idle"
    /\ Len(url[c]) < MaxUrls
    /\ url' = [url EXCEPT ![c] = Append(@, u)]
    /\ cur' = [op |-> "add_url", c |-> c]
    /\ ret' = [kind |-> "Self"]
    /\ elems' = <<>>
    /\ issued' = Zeros(Len(url[c]) + 1)
    /\ arrived' = <<>>
    /\ UNCHANGED <<id, chain_id, pc, last_params>>

\* Client::send_request, called by the user of the client.
send_request(c, method, params) ==
    /\ pc = "idle"
    /\ send_request_from(c, [op |-> "send_request", c |-> c, method |-> method],
                         method, params)

\* The body of Client::get_chain_id, run for the call k.
get_chain_id_from(c, k) ==
    IF IsCached(chain_id[c])
    THEN /\ cur' = k
         /\ elems' = <<>>
         /\ issued' = Zeros(Len(url[c]))
         /\ arrived' = <<>>
         /\ Return(c, after_chain_id(k, [panic |-> FALSE, set |-> None,
                                         value |-> chain_id[c].v]))
         /\ UNCHANGED <<id, url, last_params>>
    ELSE send_request_from(c, k, CITA_GET_META_DATA, MetaDataParams)

\* Client::get_chain_id
get_chain_id(c) ==
    /\ pc = "idle"
    /\ get_chain_id_from(c, [op |-> "get_chain_id", c |-> c])

\* Client::generate_transaction.  current_height + 88 overflows a u64 for
\* the last 88 heights: a build with overflow checks panics there, a build
\* without them wraps.
generate_transaction(c, code, address, pv, current_height, cid, nonce, checks) ==
    LET data == decode(code)
        until == add_valid_blocks(current_height)
        k0 == [op |-> "generate_transaction", c |-> c, chain_id |-> cid, pv |-> pv,
               code |-> code, current_height |-> current_height]
    IN  /\ pc = "idle"
        /\ IF ~data.ok THEN PanicNow(c, k0)
           ELSE IF until.overflow /\ checks THEN PanicNow(c, k0)
           ELSE get_chain_id_from(c,
                    [k0 EXCEPT !.op = "generate_transaction"] @@
                    [tx |-> new_transaction(data.v, address, nonce, until.val)])

\* The response of endpoint i arrives with the given body: its future is
\* done.
Respond(i, body) ==
    /\ pc = "run"
    /\ i \in DOMAIN elems
    /\ ~elems[i].done
    /\ elems' = [elems EXCEPT ![i] = Done(@.req, body)]
    /\ arrived' = Append(arrived, [endpoint |-> i, failed |-> FALSE, body |-> body])
    /\ UNCHANGED <<id, url, chain_id, pc, cur, issued, last_params, ret>>

\* Every future is done: the JoinAll gives up its elements as its item,
\* Core::run returns it, and the call goes on to its end.
RunReturns ==
    /\ pc = "run"
    /\ JoinAll_poll(elems).ready
    /\ elems' = <<>>
    /\ Return(cur.c, after_send(cur, run_outcome(Ok(JoinAll_poll(elems).item))))
    /\ UNCHANGED <<id, url, cur, issued, arrived, last_params>>

\* The request to endpoint i fails (no connection, a broken stream): the
\* JoinAll drops its elements and fails, and Core::run returns the error.
Fail(i) ==
    /\ pc = "run"
    /\ i \in DOMAIN elems
    /\ ~elems[i].done
    /\ elems' = <<>>
    /\ arrived' = Append(arrived, [endpoint |-> i, failed |-> TRUE])
    /\ Return(cur.c, after_send(cur, run_outcome(Err)))
    /\ UNCHANGED <<id, url, cur, issued, last_params>>

\* Whether the build checks arithmetic overflow; it shows only where
\* current_height + 88 overflows.
OverflowChecks(h) ==
    IF add_valid_blocks(h).overflow THEN BOOLEAN ELSE {FALSE}

AddUrl == \E c \in Callers, u \in Addrs : add_url(c, u)
SendRequest ==
    \E c \in Callers, m \in Methods : \E p \in CallerParams(m) : send_request(c, m, p)
GetChainId == \E c \in Callers : get_chain_id(c)
GenerateTransaction ==
    \E c \in Callers, code \in Codes, pv \in PrivKeys, h \in Heights,
       o \in Overrides, nonce \in Nonces :
        \E checks \in OverflowChecks(h) :
            generate_transaction(c, code, "", pv, h, o, nonce, checks)
EndpointResponds == \E i \in 1..(MaxUrls + 1), b \in Bodies : Respond(i, b)
EndpointFails == \E i \in 1..(MaxUrls + 1) : Fail(i)

Next ==
    \/ AddUrl
    \/ SendRequest
    \/ GetChainId
    \/ GenerateTransaction
    \/ EndpointResponds
    \/ RunReturns
    \/ EndpointFails

Spec == Init /\ [][Next]_vars

\* The calls of send_request with a method of the allow-list.
SendAllowed ==
    \E c \in Callers, m \in {CITA_BLOCK_BUMBER, CITA_GET_META_DATA} :
        \E p \in CallerParams(m) : send_request(c, m, p)
\* An endpoint answers with a body that is no JsonRpcResponse, or with one
\* that is.
Answers ==
    \E i \in 1..(MaxUrls + 1),
       b \in {Garbage, JsonBody(ErrorResponse),
              JsonBody(SuccessResponse(ResponseValue_Singleton(ParamsValue_String("0x10"))))} :
        Respond(i, b)

\* The steps of a thread that registers endpoints and calls send_request
\* with allowed methods.
SendNext ==
    \/ AddUrl
    \/ SendAllowed
    \/ Answers
    \/ RunReturns
    \/ EndpointFails

\* Client::new, its value bound to c in place of the client that was there.
\* Core::new() may fail (core = Err): then there is no new client.
new(c, core) ==
    /\ pc = "idle"
    /\ cur' = [op |-> "new", c |-> c]
    /\ elems' = <<>>
    /\ issued' = <<>>
    /\ arrived' = <<>>
    /\ UNCHANGED pc
    /\ IF core.ok
       THEN /\ id' = [id EXCEPT ![c] = Zero64]
            /\ url' = [url EXCEPT ![c] = <<>>]
            /\ chain_id' = [chain_id EXCEPT ![c] = None]
            /\ last_params' = [last_params EXCEPT ![c] = None]
            /\ ret' = [kind |-> "Result", res |-> Ok("Self")]
       ELSE /\ ret' = [kind |-> "Result", res |-> Err]
            /\ UNCHANGED <<id, url, chain_id, last_params>>

\* The steps of a thread that drives two clients.
New == \E c \in Clients, core \in {Ok("Core"), Err} : new(c, core)
AddUrlOfAny == \E c \in Clients : add_url(c, "http://127.0.0.1:1337")
SendOfAny ==
    \E c \in Clients, m \in {CITA_BLOCK_BUMBER, "cita_sendTransaction"} :
        \E p \in CallerParams(m) : send_request(c, m, p)
GetChainIdOfAny == \E c \in Clients : get_chain_id(c)
GenerateOfAny ==
    \E c \in Clients :
        generate_transaction(c, <<"6", "0", "6", "0">>, "", "pv", U64(100), None,
                             "nonce", FALSE)
AnswersToAny ==
    \E i \in 1..(MaxUrls + 1),
       b \in {JsonBody(ErrorResponse),
              JsonBody(SuccessResponse(ResponseValue_Map(ChainIdMap(ParamsValue_Int(U64(2))))))} :
        Respond(i, b)

TwoNext ==
    \/ New
    \/ AddUrlOfAny
    \/ SendOfAny
    \/ GetChainIdOfAny
    \/ GenerateOfAny
    \/ AnswersToAny
    \/ RunReturns
    \/ EndpointFails

\* Two clients as Client::new has made them.
TwoInit == Init /\ id = [c \in Clients |-> Zero64]

TwoSpec == TwoInit /\ [][TwoNext]_vars

\* Core::run keeps turning the event loop and polling the JoinAll until it
\* is ready: once every future is done the call returns.  Nothing is
\* assumed of the endpoints.
FairSpec == Init /\ [][SendNext]_vars /\ WF_vars(RunReturns)

\* ------------------------------------------------------------- the claims
\* The last call was made on this client.
Callee == cur.c
\* The places in `arrived` that record what endpoint i did.
ArrivalsOf(i) == {j \in DOMAIN arrived : arrived[j].endpoint = i}
\* Endpoint i has answered with a body (it has not failed).
Answered(i) == \E j \in ArrivalsOf(i) : ~arrived[j].failed
\* The body endpoint i answered with.
AnswerOf(i) == arrived[CHOOSE j \in ArrivalsOf(i) : ~arrived[j].failed].body
\* The last call sent no request to any endpoint.
NoRequestSent == \A i \in DOMAIN issued : issued[i] = 0
\* Some registered address of client c is no URI.
HasMalformedUrl(c) == \E i \in DOMAIN url[c] : ~Uri_from_str(url[c][i]).ok

(* C1: a send_request whose method is neither "cita_blockNumber" nor       *)
(* "cita_getMetaData" returns the error Err(()) and sends no request to    *)
(* any endpoint, whatever the endpoint set (malformed addresses included), *)
(* the id and the cached chain id.                                         *)
C1_UnsupportedMethodIsRejected ==
    (cur.op = "send_request" /\ ~IsAllowedMethod(cur.method))
        => /\ ret = [kind |-> "Result", res |-> Err]
           /\ NoRequestSent

(* C2: with N >= 1 endpoints, a send_request with an allowed method sends  *)
(* exactly one request to each endpoint; when every endpoint answers with  *)
(* a well-formed body it returns Ok with exactly N responses, and the i-th *)
(* response is what the i-th endpoint answered, in whatever order the      *)
(* answers arrived.                                                        *)
C2_ResponsesInUrlOrder ==
    (cur.op = "send_request" /\ IsAllowedMethod(cur.method)
        /\ Len(url[Callee]) >= 1 /\ ~HasMalformedUrl(Callee))
        => LET n == Len(url[Callee])
               allAnswered ==
                   \A i \in 1..n : Answered(i) /\ from_slice(AnswerOf(i)).ok
           IN  /\ \A i \in 1..n : issued[i] = 1 /\ Cardinality(ArrivalsOf(i)) <= 1
               /\ (pc # "run" /\ allAnswered)
                    => /\ ret.kind = "Result"
                       /\ ret.res.ok
                       /\ Len(ret.res.v) = n
                       /\ \A i \in 1..n : ret.res.v[i] = from_slice(AnswerOf(i)).v
               /\ (ret.kind = "Result") => allAnswered

\* Witness of C2: two endpoints, the second answered first and with another
\* response than the first, and the call has returned both.
C2_Witness ==
    /\ cur.op = "send_request"
    /\ pc = "idle"
    /\ ret.kind = "Result"
    /\ ret.res.ok
    /\ Len(ret.res.v) = 2
    /\ arrived[1].endpoint = 2
    /\ ret.res.v[1] # ret.res.v[2]

(* C3: when, in a send_request with an allowed method, one endpoint has a  *)
(* malformed address, fails to connect or answers with a malformed body,   *)
(* the whole call fails: the caller gets no list of responses, also not of *)
(* the other endpoints' answers, and no endpoint is sent a second request. *)
C3_OneFailureFailsTheCall ==
    (cur.op = "send_request" /\ IsAllowedMethod(cur.method)
        /\ \/ HasMalformedUrl(Callee)
           \/ \E j \in DOMAIN arrived :
                 arrived[j].failed \/ ~from_slice(arrived[j].body).ok)
        => /\ ret.kind # "Result"
           /\ pc # "idle"
           /\ (pc = "panicked" => ret = Panicked)
           /\ \A i \in DOMAIN issued : issued[i] <= 1

\* Witness of C3: one endpoint answered well, the other with a malformed
\* body, and the call has panicked.
C3_Witness ==
    /\ cur.op = "send_request"
    /\ pc = "panicked"
    /\ ret = Panicked
    /\ Len(arrived) = 2
    /\ \E j, k \in DOMAIN arrived :
          /\ ~arrived[j].failed /\ from_slice(arrived[j].body).ok
          /\ ~arrived[k].failed /\ ~from_slice(arrived[k].body).ok

\* The request id in the body that send_request built last on client c.
EmbeddedId(c) == last_params[c].v["id"].int

(* C4: the request id in the bodies of consecutive send_request calls on   *)
(* one client goes up by exactly 1 modulo 2^64: after 2^64 - 1 comes 0,    *)
(* and the call that wraps does not fail because of it.                    *)
C4_IdsConsecutive ==
    [][\A c \in Clients :
         (last_params[c].some
             /\ (last_params'[c] # last_params[c] \/ id'[c] # id[c]))
            => /\ last_params'[c].some
               /\ wrapping_sub(last_params'[c].v["id"].int, EmbeddedId(c)) = U64(1)
               /\ (EmbeddedId(c) = Max64 => last_params'[c].v["id"].int = Zero64)
               /\ (pc' = "panicked" => HasMalformedUrl(c))]_vars

\* Witness of C4: the id in the last body is 0, which only a call made with
\* the id at 2^64 - 1 puts there, and that call has not panicked.
C4_Witness ==
    /\ last_params["c1"].some
    /\ EmbeddedId("c1") = Zero64
    /\ id["c1"] = Zero64
    /\ pc # "panicked"

(* C5: once a chain id is cached, every get_chain_id returns the cached    *)
(* value at once, sends no request and leaves the id as it is, so no       *)
(* further cita_getMetaData broadcast follows the one that resolved it.    *)
C5_CachedChainIdNeedsNoCall ==
    [][\A c \in Clients :
         (pc = "idle" /\ chain_id[c].some /\ cur'.op = "get_chain_id" /\ cur'.c = c)
            => /\ ret' = [kind |-> "u32", value |-> chain_id[c].v]
               /\ pc' = "idle"
               /\ id' = id
               /\ last_params' = last_params
               /\ chain_id' = chain_id
               /\ elems' = <<>>
               /\ \A i \in DOMAIN issued' : issued'[i] = 0]_vars

\* Witness of C5: a get_chain_id on a client with an endpoint has returned
\* the cached chain id and sent no request.
C5_Witness ==
    /\ cur.op = "get_chain_id"
    /\ pc = "idle"
    /\ Len(url["c1"]) >= 1
    /\ chain_id["c1"].some
    /\ ret = [kind |-> "u32", value |-> chain_id["c1"].v]
    /\ NoRequestSent

(* C6: once the chain id cache of a client holds a value, it holds that    *)
(* value in every later state, whatever calls follow.                      *)
C6_CacheNeverChanges ==
    [][\A c \in Clients : chain_id[c].some => chain_id'[c] = chain_id[c]]_vars

\* Witness of C6: the cache holds 1 after a later send_request has returned
\* a response that reports the chain id 2.
C6_Witness ==
    /\ chain_id["c1"] = Some(U32(1))
    /\ cur.op = "send_request"
    /\ ret.kind = "Result"
    /\ ret.res.ok
    /\ Len(ret.res.v) >= 1
    /\ ret.res.v[1] =
          SuccessResponse(ResponseValue_Map(ChainIdMap(ParamsValue_Int(U64(2)))))

\* The response is a result map with an integer chainId.
HasChainId(response) ==
    LET r == result(response)
    IN  /\ r.some
        /\ r.v.t = "Map"
        /\ "chainId" \in DOMAIN r.v.map
        /\ r.v.map["chainId"].t = "Int"
\* The chainId it reports.
ChainIdOf(response) == result(response).v.map["chainId"].int
\* The response endpoint i answered with.
ResponseOf(i) == from_slice(AnswerOf(i)).v
\* Every endpoint of the last call's client has answered with a
\* JsonRpcResponse.
AllAnswered ==
    \A i \in DOMAIN url[Callee] : Answered(i) /\ from_slice(AnswerOf(i)).ok
\* The last call was a get_chain_id that found no cached chain id, asked the
\* endpoints and has come to its end.
Resolved ==
    /\ cur.op = "get_chain_id"
    /\ pc # "run"
    /\ ~NoRequestSent
    /\ AllAnswered

(* C7 as claimed: a get_chain_id that finds no cached chain id, with two   *)
(* or more endpoints that all report an integer chainId, caches and        *)
(* returns the chainId of the first registered endpoint.                   *)
C7_FirstEndpointDecides ==
    (Resolved /\ Len(url[Callee]) >= 2
        /\ \A i \in DOMAIN url[Callee] : HasChainId(ResponseOf(i)))
        => /\ chain_id[Callee] = Some(as_u32(ChainIdOf(ResponseOf(1))))
           /\ ret = [kind |-> "u32", value |-> as_u32(ChainIdOf(ResponseOf(1)))]

(* C7 as amended: a get_chain_id that finds no cached chain id, with two   *)
(* or more endpoints that all answer, caches and returns the chainId (its  *)
(* low 32 bits) of the response of the last registered endpoint, also when *)
(* the other endpoints report another chainId.                             *)
C7_LastEndpointDecides ==
    (Resolved /\ Len(url[Callee]) >= 2
        /\ HasChainId(ResponseOf(Len(url[Callee]))))
        => LET x == ChainIdOf(ResponseOf(Len(url[Callee])))
           IN  /\ chain_id[Callee] = Some(as_u32(x))
               /\ ret = [kind |-> "u32", value |-> as_u32(x)]

\* Witness of C7: two endpoints, the first reports 2 and the last 2^32 + 1,
\* and get_chain_id has cached and returned the last one's.
C7_Witness ==
    /\ Resolved
    /\ pc = "idle"
    /\ Len(url[Callee]) = 2
    /\ HasChainId(ResponseOf(1)) /\ ChainIdOf(ResponseOf(1)) = U64(2)
    /\ HasChainId(ResponseOf(2)) /\ ChainIdOf(ResponseOf(2)) = Big64
    /\ chain_id[Callee] = Some(U32(1))
    /\ ret = [kind |-> "u32", value |-> U32(1)]

(* C8: when the responses to cita_getMetaData are not of the expected      *)
(* shape (an error response, a result that is no map, a map without        *)
(* chainId, a chainId that is no integer), get_chain_id returns 0 and does *)
(* not fail.                                                               *)
C8_UnexpectedShapeYieldsZero ==
    (Resolved /\ Len(url[Callee]) >= 1
        /\ \A i \in DOMAIN url[Callee] : ~HasChainId(ResponseOf(i)))
        => /\ pc = "idle"
           /\ ret = [kind |-> "u32", value |-> U32(0)]

\* a <= b for two u64
RECURSIVE Leq64(_, _)
Leq64(a, b) ==
    IF a = <<>> THEN TRUE
    ELSE LET n == Len(a)
         IN  \/ a[n] < b[n]
             \/ a[n] = b[n] /\ Leq64(SubSeq(a, 1, n - 1), SubSeq(b, 1, n - 1))

\* 2^64 - 89, the largest height to which 88 can be added in a u64
MaxHeight == <<Base - 1 - ValidBlocks, Base - 1, Base - 1, Base - 1>>

(* C9: generate_transaction with a chain id given (and a payload and a     *)
(* height it accepts) does not call get_chain_id: it sends no request,     *)
(* leaves the id and the cached chain id as they are, and returns the      *)
(* transaction, also on a client without endpoints.                        *)
C9_OverrideNeedsNoResolution ==
    [][(pc = "idle" /\ cur'.op = "generate_transaction" /\ cur'.chain_id.some
          /\ decode(cur'.code).ok /\ Leq64(cur'.current_height, MaxHeight))
         => /\ pc' = "idle"
            /\ ret'.kind = "String"
            /\ id' = id
            /\ chain_id' = chain_id
            /\ \A i \in DOMAIN issued' : issued'[i] = 0]_vars

\* The chain id generate_transaction is to use: the one given, else what
\* get_chain_id returned (the cached value, or 0 when none was cached).
ExpectedChainId ==
    IF cur.chain_id.some THEN cur.chain_id.v
    ELSE IF chain_id[Callee].some THEN chain_id[Callee].v
    ELSE U32(0)

(* C10 as claimed: for every payload and every current_height the          *)
(* transaction has valid_until_block = current_height + 88, quota =        *)
(* 1000000 and the chain id given, else the one get_chain_id returned.     *)
C10_FieldsForEveryHeight ==
    (cur.op = "generate_transaction" /\ ret.kind = "String")
        => LET tx == ret.signed.transaction
           IN  /\ wrapping_sub(tx.valid_until_block, cur.current_height) = U64(88)
               /\ Leq64(cur.current_height, tx.valid_until_block)
               /\ tx.quota = 1000000
               /\ tx.chain_id = ExpectedChainId

(* C10 as amended: for every payload and every current_height of at most   *)
(* 2^64 - 89 the transaction has valid_until_block = current_height + 88,  *)
(* quota = 1000000 and the chain id given, else the one get_chain_id       *)
(* returned; the quota and the chain id are so for every height.           *)
C10_FieldsUpToMaxHeight ==
    (cur.op = "generate_transaction" /\ ret.kind = "String")
        => LET tx == ret.signed.transaction
           IN  /\ Leq64(cur.current_height, MaxHeight)
                    => /\ wrapping_sub(tx.valid_until_block, cur.current_height) = U64(88)
                       /\ Leq64(cur.current_height, tx.valid_until_block)
               /\ tx.quota = 1000000
               /\ tx.chain_id = ExpectedChainId
               /\ tx.data = decode(cur.code).v

\* Witness of C10: height 100, payload "6060" and chain id 1 given; the
\* transaction has 188, 1000000 and 1.
C10_Witness ==
    /\ cur.op = "generate_transaction"
    /\ ret.kind = "String"
    /\ cur.current_height = U64(100)
    /\ cur.chain_id = Some(U32(1))
    /\ cur.code = <<"6", "0", "6", "0">>
    /\ ret.signed.transaction.data = <<96, 96>>
    /\ ret.signed.transaction.valid_until_block = U64(188)
    /\ ret.signed.transaction.quota = 1000000
    /\ ret.signed.transaction.chain_id = U32(1)

\* The string is no hex encoding of bytes.
NotHex(code) == Len(code) % 2 # 0 \/ \E i \in DOMAIN code : ~IsHexDigit(code[i])

(* C11: a generate_transaction whose payload is no valid hex fails at once *)
(* (the unwrap() of the decoding panics): nothing is signed, no request is *)
(* sent, and the id, the cached chain id and the urls stay as they were.   *)
C11_BadHexFailsFirst ==
    [][(pc = "idle" /\ cur'.op = "generate_transaction" /\ NotHex(cur'.code))
         => /\ pc' = "panicked"
            /\ ret' = Panicked
            /\ id' = id
            /\ chain_id' = chain_id
            /\ url' = url
            /\ last_params' = last_params
            /\ elems' = <<>>
            /\ \A i \in DOMAIN issued' : issued'[i] = 0]_vars

\* Witness of C11: generate_transaction with the payload "zz" on a client
\* with an endpoint and no cached chain id has panicked without a request.
C11_Witness ==
    /\ cur.op = "generate_transaction"
    /\ cur.code = <<"z", "z">>
    /\ pc = "panicked"
    /\ ret = Panicked
    /\ Len(url[Callee]) >= 1
    /\ ~chain_id[Callee].some
    /\ NoRequestSent

(* C12: in one send_request, the request to every endpoint has been sent   *)
(* before the call waits for a response and before any response arrives:   *)
(* while the call waits, and once an endpoint has answered or failed,      *)
(* every endpoint has been sent its one request and has its future among   *)
(* the elements being awaited; none is started later.                      *)
C12_AllSentBeforeAnyResponse ==
    /\ pc = "run"
         => /\ Len(elems) = Len(url[Callee])
            /\ \A i \in DOMAIN url[Callee] : issued[i] = 1
    /\ arrived # <<>>
         => \A i \in DOMAIN url[Callee] : issued[i] = 1

\* Witness of C12: two endpoints, the first has answered, the second has
\* not, and the call still waits: both requests have been sent.
C12_Witness ==
    /\ pc = "run"
    /\ Len(url[Callee]) = 2
    /\ Len(arrived) = 1
    /\ arrived[1].endpoint = 1
    /\ ~arrived[1].failed
    /\ ~elems[2].done
    /\ issued = <<1, 1>>

(* C13: a send_request has returned Ok only when every one of its N        *)
(* endpoints has answered, and then with N responses; while an endpoint's  *)
(* answer is outstanding the call has returned nothing, also when another  *)
(* endpoint has answered well already.                                     *)
C13_OkOnlyWhenAllAnswered ==
    /\ (cur.op = "send_request" /\ ret.kind = "Result" /\ ret.res.ok)
         => /\ pc = "idle"
            /\ Len(ret.res.v) = Len(url[Callee])
            /\ \A i \in DOMAIN url[Callee] : Answered(i)
    /\ (pc = "run" /\ \E i \in DOMAIN elems : ~elems[i].done)
         => ret = NoReturn

\* Witness of C13: the first of two endpoints has answered with a
\* well-formed response, the second has not, and the call has not returned.
C13_Witness ==
    /\ cur.op = "send_request"
    /\ pc = "run"
    /\ Len(elems) = 2
    /\ elems[1].done
    /\ from_slice(elems[1].body).ok
    /\ ~elems[2].done
    /\ ret = NoReturn

\* The call waits in Core::run for an endpoint that has neither answered
\* nor failed.
Outstanding == pc = "run" /\ \E i \in DOMAIN elems : ~elems[i].done

(* C14: a call that has entered Core::run leaves it only when every        *)
(* endpoint has answered or when one has failed, so while an endpoint      *)
(* stays silent and none fails it never returns; and a call that waits     *)
(* forever waits forever for an outstanding endpoint: when every endpoint  *)
(* answers or fails in the end, the call returns.                          *)
C14_ReturnsWhenAllComplete ==
    /\ [][(pc = "run" /\ pc' # "run")
            => \/ \A i \in DOMAIN elems : elems[i].done
               \/ /\ Len(arrived') = Len(arrived) + 1
                  /\ arrived'[Len(arrived')].failed]_vars
    /\ <>[](pc = "run") => <>[]Outstanding

\* Witness of C14: a send_request to two endpoints has waited for both
\* answers, the first endpoint's coming last, and has returned.
C14_Witness ==
    /\ cur.op = "send_request"
    /\ IsAllowedMethod(cur.method)
    /\ pc = "idle"
    /\ Len(url[Callee]) = 2
    /\ Len(arrived) = 2
    /\ arrived[2].endpoint = 1
    /\ ret.kind = "Result"
    /\ ret.res.ok

\* The method of the requests of the last call: the caller's for
\* send_request, else the one get_chain_id asks.
MethodOf(k) == IF k.op = "send_request" THEN k.method ELSE CITA_GET_META_DATA

(* C15: all N requests of one send_request carry the same body; its id is  *)
(* the client's id as incremented for this call, also when the caller's    *)
(* params held an id of their own (7), and its method and params are the   *)
(* caller's.                                                               *)
C15_OneBodyWithTheNewId ==
    pc = "run"
        => \A i \in DOMAIN elems :
              LET body == elems[i].req.body
              IN  /\ body = elems[1].req.body
                  /\ body = last_params[Callee].v
                  /\ DOMAIN body = {"id", "method", "params"}
                  /\ body["id"] = ParamsValue_Int(id[Callee])
                  /\ body["id"] # ParamsValue_Int(U64(7))
                  /\ body["method"] = ParamsValue_String(MethodOf(cur))
                  /\ elems[i].req.uri = url[Callee][i]

\* Witness of C15: a send_request to two endpoints waits for the answers to
\* two requests, both with the id 2^64 - 1 that the call gave the client.
C15_Witness ==
    /\ cur.op = "send_request"
    /\ pc = "run"
    /\ Len(elems) = 2
    /\ id[Callee] = Max64
    /\ elems[1].req.body["id"] = ParamsValue_Int(Max64)
    /\ elems[2].req.body["id"] = ParamsValue_Int(Max64)

(* C16: the urls of a client change only in add_url, which returns the     *)
(* client for every address (also one that is no URI), with the address    *)
(* appended after the urls it had, and with its id and cached chain id as  *)
(* they were; send_request, get_chain_id and generate_transaction, however *)
(* they end, leave the urls as they are, and no url is ever removed.       *)
C16_UrlsOnlyAppendedByAddUrl ==
    [][/\ url' # url
           => /\ cur'.op = "add_url"
              /\ pc = "idle" /\ pc' = "idle"
              /\ ret' = [kind |-> "Self"]
              /\ \E u \in Addrs :
                    url' = [url EXCEPT ![cur'.c] = Append(url[cur'.c], u)]
              /\ id' = id
              /\ chain_id' = chain_id
       /\ cur'.op \in {"send_request", "get_chain_id", "generate_transaction"}
           => url' = url
       /\ \A c \in Clients :
             /\ Len(url'[c]) >= Len(url[c])
             /\ SubSeq(url'[c], 1, Len(url[c])) = url[c]]_vars

\* Witness of C16: add_url has appended an address that is no URI after a
\* well-formed one and has returned the client.
C16_Witness ==
    /\ cur.op = "add_url"
    /\ pc = "idle"
    /\ ret = [kind |-> "Self"]
    /\ url[Callee] = <<"http://127.0.0.1:1337", "">>

(* C17: a step of a call on one client leaves the urls, the id and the     *)
(* cached chain id of every other client as they are, whatever the call    *)
(* (new, add_url, send_request, get_chain_id, generate_transaction) and    *)
(* however it ends; and the client that Client::new returns has no url,    *)
(* the id 0 and no cached chain id.                                        *)
C17_ClientsDoNotInterfere ==
    [][/\ \A c \in Clients :
             c # cur'.c
                => /\ url'[c] = url[c]
                   /\ id'[c] = id[c]
                   /\ chain_id'[c] = chain_id[c]
       /\ (cur'.op = "new" /\ ret'.res.ok)
             => /\ url'[cur'.c] = <<>>
                /\ id'[cur'.c] = Zero64
                /\ chain_id'[cur'.c] = None]_vars

\* Witness of C17: get_chain_id on c2 has cached the chain id 2 and made the
\* id 1, while c1 keeps its two urls, the id 0 and an empty cache.
C17_Witness ==
    /\ cur = [op |-> "get_chain_id", c |-> "c2"]
    /\ pc = "idle"
    /\ chain_id["c2"] = Some(U32(2))
    /\ chain_id["c1"] = None
    /\ Len(url["c1"]) = 2
    /\ Len(url["c2"]) = 1
    /\ id["c1"] = Zero64
    /\ id["c2"] = U64(1)

(* C18: a send_request that is rejected because its method is not in the   *)
(* allow-list leaves the id, the cached chain id and the urls of the       *)
(* client as they were before the call.                                    *)
C18_RejectedSendChangesNothing ==
    [][(pc = "idle" /\ cur'.op = "send_request" /\ ~IsAllowedMethod(cur'.method)
          /\ ret' = [kind |-> "Result", res |-> Err])
         => /\ id' = id
            /\ chain_id' = chain_id
            /\ url' = url]_vars

\* The last call was a get_chain_id that asked the endpoints, got a
\* response of another shape than a map with an integer chainId from the
\* endpoint that decides, and returned 0.
ReturnedSentinel ==
    /\ Resolved
    /\ pc = "idle"
    /\ ~HasChainId(ResponseOf(Len(url[Callee])))
    /\ ret = [kind |-> "u32", value |-> U32(0)]

\* The step is a call that has to find out the chain id of the client of
\* the last call: get_chain_id, or generate_transaction with no chain id
\* given and a payload and a height it accepts.
ResolvesAgain ==
    /\ cur'.c = cur.c
    /\ \/ cur'.op = "get_chain_id"
       \/ /\ cur'.op = "generate_transaction"
          /\ ~cur'.chain_id.some
          /\ ~NotHex(cur'.code)
          /\ Leq64(cur'.current_height, MaxHeight)

(* C19: when get_chain_id has returned 0 for a response of an unexpected   *)
(* shape, no chain id is cached; the next get_chain_id (or                 *)
(* generate_transaction with no chain id given) on that client sends       *)
(* cita_getMetaData to every endpoint again; and a call that waits for the *)
(* endpoints and then returns with an integer chainId from the endpoint    *)
(* that decides caches it.                                                 *)
C19_SentinelIsNotCached ==
    /\ [](ReturnedSentinel => chain_id[Callee] = None)
    /\ [][(ReturnedSentinel /\ ResolvesAgain)
            => /\ id'[cur.c] = NextId(id[cur.c])
               /\ pc' = "run"
               /\ chain_id' = chain_id
               /\ \A i \in DOMAIN url[cur.c] :
                     /\ issued'[i] = 1
                     /\ elems'[i].req.body["method"] =
                           ParamsValue_String(CITA_GET_META_DATA)]_vars
    /\ [][(pc = "run" /\ pc' = "idle" /\ cur.op # "send_request"
             /\ Len(elems) >= 1
             /\ HasChainId(from_slice(elems[Len(elems)].body).v))
            => chain_id'[cur.c] =
                  Some(as_u32(ChainIdOf(from_slice(elems[Len(elems)].body).v)))]_vars

\* Witness of C19: get_chain_id has asked the one endpoint of the client,
\* got an error response and returned 0, and nothing is cached.
C19_Witness ==
    /\ ReturnedSentinel
    /\ Len(url[Callee]) = 1
    /\ ResponseOf(1) = ErrorResponse
    /\ chain_id[Callee] = None

\* A u32 as the u64 of the same value.
u64_from(x) == x \o <<0, 0>>

(* C20: the chain id that get_chain_id caches and returns is the integer   *)
(* chainId that the deciding endpoint reported, for every reported value,  *)
(* also one of 2^32 or more (2^32 + 1 is not cached as 1).                 *)
C20_ChainIdAsReported ==
    (Resolved /\ pc = "idle" /\ HasChainId(ResponseOf(Len(url[Callee]))))
        => LET x == ChainIdOf(ResponseOf(Len(url[Callee])))
           IN  /\ chain_id[Callee].some
               /\ u64_from(chain_id[Callee].v) = x
               /\ ret.kind = "u32"
               /\ u64_from(ret.value) = x

\* The last call was made on a client without urls and has come to its end.
EndedWithoutUrls == cur.op # "none" /\ url[Callee] = <<>> /\ pc # "run"

(* C21: on a client without urls, a send_request with an allowed method    *)
(* returns Ok with an empty list of responses, no request sent and nothing *)
(* awaited; a get_chain_id (the cache of such a client is empty), and a    *)
(* generate_transaction with no chain id given, fails (the                 *)
(* pop().unwrap() of the empty list panics) instead of returning 0 or a    *)
(* transaction, and the cache stays empty.                                 *)
C21_WithoutUrls ==
    /\ (EndedWithoutUrls /\ cur.op = "send_request" /\ IsAllowedMethod(cur.method))
         => /\ pc = "idle"
            /\ ret = [kind |-> "Result", res |-> Ok(<<>>)]
            /\ NoRequestSent
            /\ arrived = <<>>
    /\ (EndedWithoutUrls
          /\ \/ cur.op = "get_chain_id"
             \/ cur.op = "generate_transaction" /\ ~cur.chain_id.some)
         => /\ pc = "panicked"
            /\ ret = Panicked
            /\ NoRequestSent
            /\ arrived = <<>>
    /\ \A c \in Clients : url[c] = <<>> => chain_id[c] = None

\* Witness of C21: get_chain_id on a client without urls has built its
\* request body, sent it to nobody and panicked; nothing is cached.
C21_Witness ==
    /\ EndedWithoutUrls
    /\ cur.op = "get_chain_id"
    /\ pc = "panicked"
    /\ last_params[Callee].some
    /\ last_params[Callee].v["method"] = ParamsValue_String(CITA_GET_META_DATA)
    /\ chain_id[Callee] = None

====
